---- MODULE Spec2Model ----
(***************************************************************************)
(* Mini-batch construction and packing pipeline of src/DMM/util.py:        *)
(* batchify, get_mini_batch, get_mini_batch_mask, reverse_sequences and    *)
(* pad_and_reverse.                                                        *)
(*                                                                         *)
(* Arrays are functions over 0..n-1 (Python indexing).  A tensor is a      *)
(* record [shape |-> <<...>>, data |-> nested 0-based functions], so that  *)
(* a tensor with a zero-sized dimension still has a shape.  An optional     *)
(* value is None or Some(x).                                               *)
(***************************************************************************)
EXTENDS Integers, Sequences, FiniteSets, TLC

\* ---------------------------------------------------------------- bounds
NData == 3          \* number of examples in the dataset
MaxT == 2           \* declared lengths range over 0..MaxT; max_len is MaxT - 1 or MaxT
MaxBatch == 2       \* batch_size is MaxBatch - 1 or MaxBatch
InputDim == 2       \* input_dim: channels of a sequence
StaticDim == 1      \* static_dim: width of a static row

\* Optional values: None, or Some(x) holding x
None == << >>

Some(x) == <<x>>

Val(opt) == opt[1]

\* ------------------------------------------------------- array helpers
Size(a) == Cardinality(DOMAIN a)

Min2(a, b) == IF a <= b THEN a ELSE b

\* numpy fancy indexing arr[idx] with an integer index array
Take(arr, idx) == [k \in DOMAIN idx |-> arr[idx[k]]]

\* list.append on a 0-based list
Append0(list, x) ==
    [k \in 0..Size(list) |-> IF k < Size(list) THEN list[k] ELSE x]

\* np.arange(n)
Arange(n) == [k \in 0..(n - 1) |-> k]

\* a[start:end] on a 0-based array (0 <= start <= end <= len)
Slice(a, start, end) == [k \in 0..(end - start - 1) |-> a[start + k]]

\* ------------------------------------------------------------ the dataset
\* Contents of example i: every stored element carries a distinct nonzero
\* code, so a row of a mini-batch identifies the example, time step and
\* channel it was copied from.
SeqVal(i, t, c) == 100 * (i + 1) + 10 * t + c + 1

FMVal(i, t, c) == (i + t + c) % 2

StaticVal(i, c) == 1000 + 10 * i + c

YVal(i) == 2000 + i

YMaskVal(i) == i % 2

MkSequences(stored) ==
    [i \in DOMAIN stored |->
        [t \in 0..(stored[i] - 1) |-> [c \in 0..(InputDim - 1) |-> SeqVal(i, t, c)]]]

MkFeatureMask(stored) ==
    [i \in DOMAIN stored |->
        [t \in 0..(stored[i] - 1) |-> [c \in 0..(InputDim - 1) |-> FMVal(i, t, c)]]]

MkStatic(n) ==
    [i \in 0..(n - 1) |-> [c \in 0..(StaticDim - 1) |-> StaticVal(i, c)]]

\* ------------------------------------------------------------ batchify
\* the filter condition of np.logical_and(seq_lengths <= max_len, seq_lengths > 0)
\* variant: the upper bound excluded
KeepCondStrict(len, maxlen) == len < maxlen /\ len > 0

KeepCond(len, maxlen) == len <= maxlen /\ len > 0

\* np.where(cond)[0]: the indices satisfying cond, in ascending order
KeepIndex(lens, maxlen) ==
    LET S == {i \in DOMAIN lens : KeepCond(lens[i], maxlen)}
    IN  [k \in 0..(Cardinality(S) - 1) |->
            CHOOSE i \in S : Cardinality({j \in S : j < i}) = k]

\* int(N_data / batch_size + int(N_data % batch_size > 0)): the truncation of
\* the exact quotient (N_data + r * batch_size) / batch_size
\* variant: the partial last batch not counted
NMiniBatchesFloor(n, bsize) == n \div bsize

NMiniBatches(n, bsize) ==
    LET r == IF n % bsize > 0 THEN 1 ELSE 0
    IN  (n + r * bsize) \div bsize

\* shuffled_indices[mini_batch_start:mini_batch_end]
MiniBatchIndices(which, bsize, n) ==
    LET mini_batch_start == which * bsize
        mini_batch_end == Min2((which + 1) * bsize, n)
    IN  Slice(Arange(n), mini_batch_start, mini_batch_end)

\* ------------------------------------------------------ get_mini_batch
\* torch.sort(seq_lengths)[1]: indices that sort ascending.  stable is not
\* requested, so the order among equal lengths is any order.
IsPermutation0(p) ==
    \A a, b \in DOMAIN p : a # b => p[a] # p[b]

\* variant: no sorting at all
TorchSortIdentity(x) == {Arange(Size(x))}

TorchSortIndices(x) ==
    {p \in [DOMAIN x -> DOMAIN x] :
        /\ \A k \in 0..(Size(x) - 2) : x[p[k]] <= x[p[k + 1]]
        /\ IsPermutation0(p)}

\* tensor.flip(0)
\* variant: the flip left out
FlipNone(p) == p

Flip(p) == [k \in DOMAIN p |-> p[Size(p) - 1 - k]]

\* torch.max(seq_lengths)
TorchMax(x) == CHOOSE m \in {x[k] : k \in DOMAIN x} : \A k \in DOMAIN x : x[k] <= m

\* x[:T_max, :]
Truncate(x, T_max) == [t \in 0..(Min2(Size(x), T_max) - 1) |-> x[t]]

ZeroRow(dim) == [c \in 0..(dim - 1) |-> 0]

\* pad_sequence(list, batch_first=True) of (len_b, dim) arrays: a (B, W, dim)
\* tensor, W the longest len_b, shorter rows zero-filled at the tail
PadSequence(list, dim) ==
    LET W == IF DOMAIN list = {} THEN 0
             ELSE TorchMax([b \in DOMAIN list |-> Size(list[b])])
    IN  [shape |-> <<Size(list), W, dim>>,
         data |-> [b \in DOMAIN list |->
                    [t \in 0..(W - 1) |->
                        IF t < Size(list[b]) THEN list[b][t] ELSE ZeroRow(dim)]]]

\* torch.cat((a, b), dim=-1)
Cat(a, b) ==
    [shape |-> <<a.shape[1], a.shape[2], a.shape[3] + b.shape[3]>>,
     data |-> [r \in DOMAIN a.data |->
                [t \in DOMAIN a.data[r] |->
                    [c \in 0..(a.shape[3] + b.shape[3] - 1) |->
                        IF c < a.shape[3] THEN a.data[r][t][c]
                        ELSE b.data[r][t][c - a.shape[3]]]]]]

\* reverse_sequences raises (index_select out of range) when a length exceeds
\* the time dimension of the padded batch
ReverseSequencesRaises(mini_batch, lens) ==
    \E b \in DOMAIN lens : lens[b] > mini_batch.shape[2]

\* variant: the whole row reversed, padding included
ReverseFullRow(mini_batch, lens) ==
    [shape |-> mini_batch.shape,
     data |-> [b \in DOMAIN mini_batch.data |->
                [t \in 0..(mini_batch.shape[2] - 1) |->
                    mini_batch.data[b][mini_batch.shape[2] - 1 - t]]]]

\* reverse_sequences(mini_batch, seq_lengths): zeros_like, then row b's first
\* T = seq_lengths[b] steps are written in the order T-1, ..., 0
reverse_sequences(mini_batch, lens) ==
    [shape |-> mini_batch.shape,
     data |-> [b \in DOMAIN mini_batch.data |->
                [t \in 0..(mini_batch.shape[2] - 1) |->
                    IF t < lens[b] THEN mini_batch.data[b][lens[b] - 1 - t]
                    ELSE ZeroRow(mini_batch.shape[3])]]]

\* mask[b, 0:L] = torch.ones(L) raises when the slice is shorter than L,
\* unless L = 1 (a size-1 value broadcasts)
GetMiniBatchMaskRaises(mini_batch, lens) ==
    \E b \in DOMAIN lens :
        /\ Min2(lens[b], mini_batch.shape[2]) # lens[b]
        /\ lens[b] # 1

\* variant: one step too many marked valid
MaskInclusive(mini_batch, lens) ==
    [shape |-> <<mini_batch.shape[1], mini_batch.shape[2]>>,
     data |-> [b \in 0..(mini_batch.shape[1] - 1) |->
                [t \in 0..(mini_batch.shape[2] - 1) |->
                    IF t <= lens[b] THEN 1 ELSE 0]]]

\* get_mini_batch_mask(mini_batch, seq_lengths)
get_mini_batch_mask(mini_batch, lens) ==
    [shape |-> <<mini_batch.shape[1], mini_batch.shape[2]>>,
     data |-> [b \in 0..(mini_batch.shape[1] - 1) |->
                [t \in 0..(mini_batch.shape[2] - 1) |->
                    IF t < lens[b] THEN 1 ELSE 0]]]

\* ------------------------------------------------- packed sequences
\* batch_sizes[t]: how many rows are longer than t
BatchSizes(lens) ==
    [t \in 0..(lens[0] - 1) |-> Cardinality({b \in DOMAIN lens : lens[b] > t})]

\* nn.utils.rnn.pack_padded_sequence(input, lengths, batch_first=True), lengths
\* non-increasing: time-major, step t holds rows 0..batch_sizes[t]-1, the rows
\* longer than t.  data[t][b] stands for row batch_sizes[0] + ... +
\* batch_sizes[t-1] + b of the flat data tensor.
PackPaddedSequence(input, lens) ==
    [data |-> [t \in DOMAIN BatchSizes(lens) |->
                [b \in 0..(BatchSizes(lens)[t] - 1) |-> input.data[b][t]]],
     batch_sizes |-> BatchSizes(lens),
     dim |-> input.shape[3]]

\* nn.utils.rnn.pad_packed_sequence(packed, batch_first=True)[0]
PadPackedSequence(packed) ==
    LET bs == packed.batch_sizes
        B == IF DOMAIN bs = {} THEN 0 ELSE bs[0]
    IN  [shape |-> <<B, Size(bs), packed.dim>>,
         data |-> [b \in 0..(B - 1) |->
                    [t \in DOMAIN bs |->
                        IF b < bs[t] THEN packed.data[t][b]
                        ELSE ZeroRow(packed.dim)]]]

\* variant: the reversal left out
PadOnly(rnn_output, lens) == PadPackedSequence(rnn_output)

\* pad_and_reverse(rnn_output, seq_lengths)
pad_and_reverse(rnn_output, lens) ==
    reverse_sequences(PadPackedSequence(rnn_output), lens)

\* ------------------------------------------------------ get_mini_batch
\* which of the three feature-mask branches runs: 1 no feature mask,
\* 2 feature mask returned but not fused, 3 feature mask fused into the input
\* variant: use_feature_mask ignored
PolicyFuseWheneverPresent(sfm, ufm) == IF sfm = None THEN 1 ELSE 3

FeatureMaskPolicy(sfm, ufm) ==
    IF sfm = None THEN 1
    ELSE IF ~ufm THEN 2
    ELSE 3

\* indices_dataset[sorted_mini_batch_indices]
\* variant: positions in the filtered arrays returned instead of dataset indices
SourceIndicesUnmapped(indices_dataset, sorted_mini_batch_indices) ==
    sorted_mini_batch_indices

SourceIndices(indices_dataset, sorted_mini_batch_indices) ==
    Take(indices_dataset, sorted_mini_batch_indices)

\* list(map(lambda x: x[:T_max,:], arrays[sorted_mini_batch_indices])) padded
GatherPadded(arrays, sorted_mini_batch_indices, T_max) ==
    PadSequence([b \in DOMAIN sorted_mini_batch_indices |->
                    Truncate(arrays[sorted_mini_batch_indices[b]], T_max)],
                InputDim)

\* the tensor handed to reverse_sequences in the three branches
ReverseInput(policy, mini_batch, mini_batch_feature_mask) ==
    IF policy = 3 THEN Cat(mini_batch, Val(mini_batch_feature_mask))
    ELSE mini_batch

\* get_mini_batch raises: get_mini_batch_mask (line 300) or reverse_sequences
\* (lines 318, 325, 332) does, with the index order torch.sort produced (sort_idx)
get_mini_batch_raises(mini_batch_indices, seqs, all_lens, sfm, stat, ys, yms, indices_dataset, ufm, sort_idx) ==
    LET lens == Take(all_lens, mini_batch_indices)
        sorted_seq_length_indices == Flip(sort_idx)
        sorted_seq_lengths == Take(lens, sorted_seq_length_indices)
        sorted_mini_batch_indices == Take(mini_batch_indices, sorted_seq_length_indices)
        T_max == TorchMax(lens)
        mini_batch == GatherPadded(seqs, sorted_mini_batch_indices, T_max)
        policy == FeatureMaskPolicy(sfm, ufm)
        mini_batch_feature_mask ==
            IF policy = 1 THEN None
            ELSE Some(GatherPadded(Val(sfm), sorted_mini_batch_indices, T_max))
    IN  \/ GetMiniBatchMaskRaises(mini_batch, sorted_seq_lengths)
        \/ ReverseSequencesRaises(ReverseInput(policy, mini_batch, mini_batch_feature_mask),
                                  sorted_seq_lengths)

\* get_mini_batch when it does not raise, with the index order torch.sort
\* produced (sort_idx): the nine returned values, and reversed_dense, which is
\* mini_batch_reversed_with_mask as it is before packing
get_mini_batch(mini_batch_indices, seqs, all_lens, sfm, stat, ys, yms, indices_dataset, ufm, sort_idx) ==
    LET lens == Take(all_lens, mini_batch_indices)
        sorted_seq_length_indices == Flip(sort_idx)
        sorted_seq_lengths == Take(lens, sorted_seq_length_indices)
        sorted_mini_batch_indices == Take(mini_batch_indices, sorted_seq_length_indices)
        T_max == TorchMax(lens)
        mini_batch == GatherPadded(seqs, sorted_mini_batch_indices, T_max)
        mini_batch_static == Take(stat, sorted_mini_batch_indices)
        policy == FeatureMaskPolicy(sfm, ufm)
        mini_batch_feature_mask ==
            IF policy = 1 THEN None
            ELSE Some(GatherPadded(Val(sfm), sorted_mini_batch_indices, T_max))
        mini_batch_reversed_with_mask ==
            reverse_sequences(ReverseInput(policy, mini_batch, mini_batch_feature_mask),
                              sorted_seq_lengths)
    IN  [static |-> mini_batch_static,
         mini_batch |-> mini_batch,
         packed |-> PackPaddedSequence(mini_batch_reversed_with_mask, sorted_seq_lengths),
         mask |-> get_mini_batch_mask(mini_batch, sorted_seq_lengths),
         sorted_seq_lengths |-> sorted_seq_lengths,
         feature_mask |-> mini_batch_feature_mask,
         y |-> IF ys = None THEN None
               ELSE Some(Take(Val(ys), sorted_mini_batch_indices)),
         y_mask |-> IF yms = None THEN None
                    ELSE Some(Take(Val(yms), sorted_mini_batch_indices)),
         source_indices |-> SourceIndices(indices_dataset, sorted_mini_batch_indices),
         reversed_dense |-> mini_batch_reversed_with_mask]

VARIABLES
    dataset,                 \* the arrays the caller passed to batchify
    max_len, batch_size, use_feature_mask,
    sequences, seq_lengths, sequences_feature_mask, static,
    y_sequence, y_mask_sequence,            \* batchify's (rebound) locals
    keep_index, N_data, N_mini_batches, which_mini_batch, batches,
    reversed_dense,          \* per batch: mini_batch_reversed_with_mask before packing
    reversed_output,         \* last result of pad_and_reverse
    pc

vars == <<dataset, max_len, batch_size, use_feature_mask,
          sequences, seq_lengths, sequences_feature_mask, static,
          y_sequence, y_mask_sequence,
          keep_index, N_data, N_mini_batches, which_mini_batch, batches,
          reversed_dense, reversed_output, pc>>

\* what get_mini_batch returns: the nine outputs, without the ghost fields
Returned(r) ==
    [static |-> r.static, mini_batch |-> r.mini_batch, packed |-> r.packed,
     mask |-> r.mask, sorted_seq_lengths |-> r.sorted_seq_lengths,
     feature_mask |-> r.feature_mask, y |-> r.y, y_mask |-> r.y_mask,
     source_indices |-> r.source_indices]

Max2(a, b) == IF a >= b THEN a ELSE b

\* ------------------------------------------------------------------ Init
\* How the stored arrays relate to the declared lengths: all as declared
\* (dev = NData), or example dev stored with one row less or one row more.
StoredLengths(lens, dev, delta) ==
    [i \in DOMAIN lens |-> IF i = dev THEN Max2(0, lens[i] + delta) ELSE lens[i]]

\* <<feature mask present, use_feature_mask, y present, y_mask present>>: the
\* four feature-mask settings, each with a different setting of the labels
\* (the code handles the two groups independently)
Configs ==
    {<<FALSE, FALSE, FALSE, FALSE>>, <<FALSE, TRUE, TRUE, FALSE>>,
     <<TRUE, FALSE, FALSE, TRUE>>, <<TRUE, TRUE, TRUE, TRUE>>}

\* The caller's dataset: NData examples with declared lengths 0..MaxT.
\* batchify's locals start as its arguments.
Init ==
    \E lens \in [0..(NData - 1) -> 0..MaxT],
       dev \in 0..NData,
       delta \in {-1, 1},
       cfg \in Configs,
       ml \in {MaxT - 1, MaxT},
       bsz \in {MaxBatch - 1, MaxBatch} :
        LET stored == StoredLengths(lens, dev, delta)
            hasFM == cfg[1]
            ufm == cfg[2]
            hasY == cfg[3]
            hasYM == cfg[4]
        IN  \E ds \in {[sequences |-> MkSequences(stored),
                   seq_lengths |-> lens,
                   sequences_feature_mask |->
                       IF hasFM THEN Some(MkFeatureMask(stored)) ELSE None,
                   static |-> MkStatic(NData),
                   y_sequence |->
                       IF hasY THEN Some([i \in 0..(NData - 1) |-> YVal(i)]) ELSE None,
                   y_mask_sequence |->
                       IF hasYM THEN Some([i \in 0..(NData - 1) |-> YMaskVal(i)]) ELSE None]} :
            /\ dataset = ds
            /\ max_len = ml
            /\ batch_size = bsz
            /\ use_feature_mask = ufm
            /\ sequences = ds.sequences
            /\ seq_lengths = ds.seq_lengths
            /\ sequences_feature_mask = ds.sequences_feature_mask
            /\ static = ds.static
            /\ y_sequence = ds.y_sequence
            /\ y_mask_sequence = ds.y_mask_sequence
            /\ keep_index = << >>
            /\ N_data = 0
            /\ N_mini_batches = 0
            /\ which_mini_batch = 0
            /\ batches = << >>
            /\ reversed_dense = << >>
            /\ reversed_output = None
            /\ pc = "call"

\* --------------------------------------------------------------- actions
\* batchify, lines 244-263: filter, rebind the arrays, count the batches
BatchifyFilter ==
    /\ pc = "call"
    /\ \E ki \in {KeepIndex(seq_lengths, max_len)} :
           /\ keep_index' = ki
           /\ static' = Take(static, ki)
           /\ sequences' = Take(sequences, ki)
           /\ seq_lengths' = Take(seq_lengths, ki)
           /\ sequences_feature_mask' =
                IF sequences_feature_mask # None
                THEN Some(Take(Val(sequences_feature_mask), ki))
                ELSE sequences_feature_mask
           /\ y_sequence' =
                IF y_sequence # None THEN Some(Take(Val(y_sequence), ki))
                ELSE y_sequence
           /\ y_mask_sequence' =
                IF y_mask_sequence # None THEN Some(Take(Val(y_mask_sequence), ki))
                ELSE y_mask_sequence
           /\ N_data' = Size(ki)
           /\ N_mini_batches' = NMiniBatches(Size(ki), batch_size)
    /\ which_mini_batch' = 0
    /\ batches' = << >>
    /\ pc' = "loop"
    /\ UNCHANGED <<dataset, max_len, batch_size, use_feature_mask,
                   reversed_dense, reversed_output>>

\* the chunk of the current iteration (lines 266-268)
CurrentIndices == MiniBatchIndices(which_mini_batch, batch_size, N_data)

\* the index orders torch.sort may produce for the current chunk (line 285)
CurrentSorts == TorchSortIndices(Take(seq_lengths, CurrentIndices))

\* one iteration of the loop of lines 265-270: get_mini_batch returns and its
\* result is appended
BatchifyAppend ==
    /\ pc = "loop"
    /\ which_mini_batch < N_mini_batches
    /\ \E sort_idx \in CurrentSorts :
        /\ ~get_mini_batch_raises(CurrentIndices, sequences, seq_lengths,
                                  sequences_feature_mask, static, y_sequence,
                                  y_mask_sequence, keep_index, use_feature_mask, sort_idx)
        /\ \E r \in {get_mini_batch(CurrentIndices, sequences, seq_lengths,
                                    sequences_feature_mask, static, y_sequence,
                                    y_mask_sequence, keep_index, use_feature_mask,
                                    sort_idx)} :
            /\ batches' = Append0(batches, Returned(r))
            /\ reversed_dense' = Append0(reversed_dense, r.reversed_dense)
    /\ which_mini_batch' = which_mini_batch + 1
    /\ UNCHANGED <<dataset, max_len, batch_size, use_feature_mask,
                   sequences, seq_lengths, sequences_feature_mask, static,
                   y_sequence, y_mask_sequence, keep_index, N_data, N_mini_batches,
                   reversed_output, pc>>

\* get_mini_batch raises; the exception leaves batchify, nothing is returned
BatchifyRaise ==
    /\ pc = "loop"
    /\ which_mini_batch < N_mini_batches
    /\ \E sort_idx \in CurrentSorts :
        get_mini_batch_raises(CurrentIndices, sequences, seq_lengths,
                              sequences_feature_mask, static, y_sequence,
                              y_mask_sequence, keep_index, use_feature_mask, sort_idx)
    /\ pc' = "raised"
    /\ UNCHANGED <<dataset, max_len, batch_size, use_feature_mask,
                   sequences, seq_lengths, sequences_feature_mask, static,
                   y_sequence, y_mask_sequence, keep_index, N_data, N_mini_batches,
                   which_mini_batch, batches, reversed_dense, reversed_output>>

\* line 272: return batches
BatchifyReturn ==
    /\ pc = "loop"
    /\ which_mini_batch >= N_mini_batches
    /\ pc' = "returned"
    /\ UNCHANGED <<dataset, max_len, batch_size, use_feature_mask,
                   sequences, seq_lengths, sequences_feature_mask, static,
                   y_sequence, y_mask_sequence, keep_index, N_data, N_mini_batches,
                   which_mini_batch, batches, reversed_dense, reversed_output>>

\* the consumer hands a returned batch's packed input back through
\* pad_and_reverse (lines 356-359)
PadAndReverse ==
    /\ pc = "returned"
    /\ \E j \in DOMAIN batches :
        reversed_output' =
            Some([batch |-> j,
                  out |-> pad_and_reverse(batches[j].packed,
                                          batches[j].sorted_seq_lengths)])
    /\ UNCHANGED <<dataset, max_len, batch_size, use_feature_mask,
                   sequences, seq_lengths, sequences_feature_mask, static,
                   y_sequence, y_mask_sequence, keep_index, N_data, N_mini_batches,
                   which_mini_batch, batches, reversed_dense, pc>>

Next ==
    \/ BatchifyFilter
    \/ BatchifyAppend
    \/ BatchifyRaise
    \/ BatchifyReturn
    \/ PadAndReverse

Spec == Init /\ [][Next]_vars

\* ------------------------------------------------- vocabulary of the claims
\* the caller's view of example i
Declared(i) == dataset.seq_lengths[i]

Stored(i) == Size(dataset.sequences[i])

HasFeatureMask == dataset.sequences_feature_mask # None

\* the examples the filter is to keep
KeptSet ==
    {i \in DOMAIN dataset.seq_lengths :
        0 < dataset.seq_lengths[i] /\ dataset.seq_lengths[i] <= max_len}

K == Cardinality(KeptSet)

\* the original indices of the j-th chunk of the filtered order; p is the
\* place of example i in that order
Chunk(j) ==
    LET kept == KeptSet
    IN  {i \in kept :
            LET p == Cardinality({m \in kept : m < i})
            IN  j * batch_size <= p /\ p < (j + 1) * batch_size}

Ceil(n, d) == CHOOSE q \in 0..n : q * d >= n /\ (q = 0 \/ (q - 1) * d < n)

Rows(B) == DOMAIN B.source_indices

SourceSet(B) == {B.source_indices[b] : b \in Rows(B)}

\* the longest declared length among the examples of a batch
BatchTMax(B) ==
    CHOOSE m \in {Declared(i) : i \in SourceSet(B)} :
        \A i \in SourceSet(B) : Declared(i) <= m

\* a stored (len, dim) array cut to T rows, or zero-filled up to T rows
TruncPad(x, T, dim) ==
    [t \in 0..(T - 1) |-> IF t < Size(x) THEN x[t] ELSE ZeroRow(dim)]

\* the tensor get_mini_batch reversed and packed for batch B
DenseInput(B) ==
    ReverseInput(FeatureMaskPolicy(dataset.sequences_feature_mask, use_feature_mask),
                 B.mini_batch, B.feature_mask)

ZeroPadded(x, lens) ==
    \A b \in DOMAIN x.data : \A t \in DOMAIN x.data[b] :
        t >= lens[b] => x.data[b][t] = ZeroRow(x.shape[3])

\* ------------------------------------------------------------------- C1
\* C1: in every mini-batch, source_indices[b] is the original dataset index of
\* the example whose data fills row b of every per-example output: declared
\* length, static row, sequence (truncated / zero-padded to T_max), feature
\* mask, y and y_mask; no example fills two rows.
C1_IndexFidelity ==
    \A j \in DOMAIN batches :
        LET B == batches[j]
            n == Size(B.source_indices)
            T == BatchTMax(B)
        IN  /\ \A a, b \in Rows(B) : a # b => B.source_indices[a] # B.source_indices[b]
            /\ Size(B.static) = n
            /\ Size(B.sorted_seq_lengths) = n
            /\ B.mini_batch.shape = <<n, T, InputDim>>
            /\ (dataset.sequences_feature_mask = None) = (B.feature_mask = None)
            /\ (dataset.y_sequence = None) = (B.y = None)
            /\ (dataset.y_mask_sequence = None) = (B.y_mask = None)
            /\ \A b \in Rows(B) :
                LET i == B.source_indices[b]
                IN  /\ i \in DOMAIN dataset.seq_lengths
                    /\ B.sorted_seq_lengths[b] = Declared(i)
                    /\ B.static[b] = dataset.static[i]
                    /\ B.mini_batch.data[b] = TruncPad(dataset.sequences[i], T, InputDim)
                    /\ B.feature_mask # None =>
                        Val(B.feature_mask).data[b] =
                            TruncPad(Val(dataset.sequences_feature_mask)[i], T, InputDim)
                    /\ B.y # None => Val(B.y)[b] = Val(dataset.y_sequence)[i]
                    /\ B.y_mask # None => Val(B.y_mask)[b] = Val(dataset.y_mask_sequence)[i]

\* a returned batch whose rows were reordered by the sort, taken from a dataset
\* whose first example was filtered out, with feature mask and labels present
C1_Witness ==
    /\ pc = "returned"
    /\ 0 \notin KeptSet
    /\ \E j \in DOMAIN batches :
        /\ Size(batches[j].source_indices) >= 2
        /\ batches[j].source_indices[0] > batches[j].source_indices[1]
        /\ batches[j].sorted_seq_lengths[0] > batches[j].sorted_seq_lengths[1]
        /\ batches[j].feature_mask # None
        /\ batches[j].y # None

\* ------------------------------------------------------------------- C2
\* C2: batchify keeps example i iff 0 < seq_lengths[i] <= max_len: the filtered
\* order lists exactly those original indices, in ascending original order, the
\* filtered arrays are the caller's arrays at those indices, and the union of
\* source_indices over the returned batches is exactly that set.
C2_Filter ==
    /\ pc # "call" =>
        /\ {keep_index[k] : k \in DOMAIN keep_index} = KeptSet
        /\ \A a, b \in DOMAIN keep_index : a < b => keep_index[a] < keep_index[b]
        /\ N_data = K
        /\ seq_lengths = [k \in DOMAIN keep_index |-> Declared(keep_index[k])]
        /\ sequences = [k \in DOMAIN keep_index |-> dataset.sequences[keep_index[k]]]
    /\ pc = "returned" =>
        UNION {SourceSet(batches[j]) : j \in DOMAIN batches} = KeptSet

\* a returned run that dropped an empty example and a too long one and kept one
\* whose length is exactly max_len
C2_Witness ==
    /\ pc = "returned"
    /\ \E i \in DOMAIN dataset.seq_lengths : Declared(i) = 0
    /\ \E i \in DOMAIN dataset.seq_lengths : Declared(i) > max_len
    /\ \E i \in KeptSet : Declared(i) = max_len
    /\ UNION {SourceSet(batches[j]) : j \in DOMAIN batches} = KeptSet

\* ------------------------------------------------------------------- C3
\* C3: with K kept examples, batchify returns ceil(K / batch_size) batches, none
\* empty; the j-th holds exactly the kept examples at filtered positions
\* [j*batch_size, min((j+1)*batch_size, K)), so every batch but the last has
\* batch_size rows and every kept index is in exactly one batch; K = 0 returns
\* an empty list, and batchify raises only if a kept example is stored shorter
\* than declared.
C3_Partition ==
    /\ pc = "returned" =>
        /\ Size(batches) = Ceil(K, batch_size)
        /\ \A j \in DOMAIN batches :
            /\ SourceSet(batches[j]) = Chunk(j)
            /\ Size(batches[j].source_indices) = Cardinality(SourceSet(batches[j]))
            /\ Size(batches[j].source_indices) >= 1
            /\ j < Size(batches) - 1 => Size(batches[j].source_indices) = batch_size
        /\ \A i \in KeptSet :
            Cardinality({j \in DOMAIN batches : i \in SourceSet(batches[j])}) = 1
        /\ K = 0 => batches = << >>
    /\ pc = "raised" => \E i \in KeptSet : Stored(i) < Declared(i)

\* three kept examples returned as a full batch followed by a smaller last one
C3_Witness ==
    /\ pc = "returned"
    /\ K > batch_size
    /\ K % batch_size > 0
    /\ Size(batches) >= 2
    /\ Size(batches[0].source_indices) = batch_size
    /\ Size(batches[Size(batches) - 1].source_indices) < batch_size

\* ------------------------------------------------------------------- C4
\* C4: in every mini-batch sorted_seq_lengths is non-increasing, holds each
\* length as often as the requested chunk does, and starts with T_max, the
\* time dimension of the batch.
C4_SortedLengths ==
    \A j \in DOMAIN batches :
        LET B == batches[j]
            L == B.sorted_seq_lengths
            chunk == Chunk(j)
        IN  /\ \A b \in DOMAIN L : (b + 1) \in DOMAIN L => L[b] >= L[b + 1]
            /\ \A v \in 0..MaxT :
                Cardinality({b \in DOMAIN L : L[b] = v})
                    = Cardinality({i \in chunk : Declared(i) = v})
            /\ \A i \in chunk : Declared(i) <= L[0]
            /\ L[0] = B.mini_batch.shape[2]

\* a batch of two different lengths requested shorter-first
C4_Witness ==
    \E j \in DOMAIN batches :
        /\ Size(batches[j].sorted_seq_lengths) >= 2
        /\ batches[j].sorted_seq_lengths[0] > batches[j].sorted_seq_lengths[1]
        /\ batches[j].source_indices[0] > batches[j].source_indices[1]

\* ------------------------------------------------------------------- C5
\* C5: the mask of every mini-batch has shape (B, T_max) and mask[b,t] is 1 if
\* t < sorted_seq_lengths[b] and 0 otherwise.
C5_Mask ==
    \A j \in DOMAIN batches :
        LET B == batches[j]
            T == BatchTMax(B)
        IN  /\ B.mask.shape = <<Size(B.source_indices), T>>
            /\ DOMAIN B.mask.data = Rows(B)
            /\ \A b \in Rows(B) :
                /\ DOMAIN B.mask.data[b] = 0..(T - 1)
                /\ \A t \in DOMAIN B.mask.data[b] :
                    B.mask.data[b][t] = IF t < B.sorted_seq_lengths[b] THEN 1 ELSE 0

\* a mask with a row that is valid throughout and a row that ends in padding
C5_Witness ==
    \E j \in DOMAIN batches :
        \E a, b \in Rows(batches[j]) :
            /\ \A t \in DOMAIN batches[j].mask.data[a] : batches[j].mask.data[a][t] = 1
            /\ \E t \in DOMAIN batches[j].mask.data[b] : batches[j].mask.data[b][t] = 0
            /\ \E t \in DOMAIN batches[j].mask.data[b] : batches[j].mask.data[b][t] = 1

\* ------------------------------------------------------------------- C6
\* r is x with the first lens[b] steps of each row reversed and zeros after them
ReversedPrefixOnly(x, lens, r) ==
    /\ r.shape = x.shape
    /\ DOMAIN r.data = DOMAIN x.data
    /\ \A b \in DOMAIN x.data :
        /\ DOMAIN r.data[b] = DOMAIN x.data[b]
        /\ \A t \in DOMAIN x.data[b] :
            r.data[b][t] = IF t < lens[b] THEN x.data[b][lens[b] - 1 - t]
                           ELSE ZeroRow(x.shape[3])

\* C6: reverse_sequences returns a tensor of the shape of its input whose row
\* b holds the first L_b steps of the input row in reverse order and zeros from
\* step L_b on, whatever the input holds there; this holds of every call made
\* by get_mini_batch and by pad_and_reverse.
C6_ReversePrefix ==
    /\ \A j \in DOMAIN reversed_dense :
        ReversedPrefixOnly(DenseInput(batches[j]), batches[j].sorted_seq_lengths,
                           reversed_dense[j])
    /\ reversed_output # None =>
        LET B == batches[Val(reversed_output).batch]
        IN  ReversedPrefixOnly(PadPackedSequence(B.packed), B.sorted_seq_lengths,
                               Val(reversed_output).out)

\* a reversed batch with a row of two valid steps that were swapped, and a row
\* whose input holds stored data past its declared length, zero in the output
C6_Witness ==
    \E j \in DOMAIN reversed_dense :
        LET x == DenseInput(batches[j])
            L == batches[j].sorted_seq_lengths
            r == reversed_dense[j]
        IN  /\ \E b \in DOMAIN L :
                L[b] >= 2 /\ r.data[b][0] = x.data[b][L[b] - 1] /\ r.data[b][0] # x.data[b][0]
            /\ \E b \in DOMAIN L : \E t \in DOMAIN x.data[b] :
                /\ t >= L[b]
                /\ x.data[b][t] # ZeroRow(x.shape[3])
                /\ r.data[b][t] = ZeroRow(x.shape[3])

\* ------------------------------------------------------------------- C7
\* C7: when the dense input x of a batch is zero beyond each row's length,
\* pad_and_reverse(pack(reverse_sequences(x, L), L), L) equals x, shape
\* included.
C7_RoundTrip ==
    reversed_output # None =>
        LET B == batches[Val(reversed_output).batch]
            x == DenseInput(B)
        IN  ZeroPadded(x, B.sorted_seq_lengths) => Val(reversed_output).out = x

\* the round trip of a zero-padded batch with a row of two steps and a shorter,
\* padded row
C7_Witness ==
    /\ reversed_output # None
    /\ LET B == batches[Val(reversed_output).batch]
           x == DenseInput(B)
       IN  /\ ZeroPadded(x, B.sorted_seq_lengths)
           /\ Size(B.sorted_seq_lengths) >= 2
           /\ B.sorted_seq_lengths[0] >= 2
           /\ B.sorted_seq_lengths[1] < B.sorted_seq_lengths[0]
           /\ Val(reversed_output).out = x

\* ------------------------------------------------------------------- C8
\* the packed input of B holds, per valid step, the reversed sequence channels
\* and, when fused, the reversed feature-mask channels after them
PackedHolds(B, fused) ==
    LET unp == PadPackedSequence(B.packed)
        L == B.sorted_seq_lengths
    IN  /\ B.packed.dim = IF fused THEN 2 * InputDim ELSE InputDim
        /\ unp.shape = <<Size(L), L[0], B.packed.dim>>
        /\ \A b \in DOMAIN L : \A t \in 0..(L[b] - 1) :
            /\ DOMAIN unp.data[b][t] = 0..(B.packed.dim - 1)
            /\ \A c \in 0..(InputDim - 1) :
                unp.data[b][t][c] = B.mini_batch.data[b][L[b] - 1 - t][c]
            /\ fused => \A c \in 0..(InputDim - 1) :
                unp.data[b][t][InputDim + c] =
                    Val(B.feature_mask).data[b][L[b] - 1 - t][c]

\* the returned feature mask is the caller's, gathered by source_indices and
\* truncated / zero-padded to T_max
DenseFeatureMask(B) ==
    LET T == BatchTMax(B)
    IN  /\ B.feature_mask # None
        /\ Val(B.feature_mask).shape = <<Size(B.source_indices), T, InputDim>>
        /\ \A b \in Rows(B) :
            Val(B.feature_mask).data[b] =
                TruncPad(Val(dataset.sequences_feature_mask)[B.source_indices[b]],
                         T, InputDim)

C9_StableTies ==
    \A j \in DOMAIN batches :
        \A a, b \in Rows(batches[j]) :
            (a < b /\ batches[j].sorted_seq_lengths[a] = batches[j].sorted_seq_lengths[b])
                => batches[j].source_indices[a] < batches[j].source_indices[b]

\* C9, amended: the rows of a mini-batch are the requested examples, each once,
\* and an example strictly longer than another takes the earlier row; the order
\* among examples of equal length is not fixed.
C9_DescendingOnly ==
    \A j \in DOMAIN batches :
        LET B == batches[j]
        IN  /\ SourceSet(B) = Chunk(j)
            /\ Cardinality(SourceSet(B)) = Size(B.source_indices)
            /\ \A a, b \in Rows(B) :
                Declared(B.source_indices[a]) > Declared(B.source_indices[b]) => a < b

\* two examples of equal length returned in the reverse of the requested order,
\* behind a longer one or alone
C9_Witness ==
    \E j \in DOMAIN batches :
        \E a, b \in Rows(batches[j]) :
            /\ a < b
            /\ batches[j].sorted_seq_lengths[a] = batches[j].sorted_seq_lengths[b]
            /\ batches[j].source_indices[a] > batches[j].source_indices[b]

\* ------------------------------------------------------------------ C10
\* C10: if a kept example is declared longer than its stored array, batchify
\* raises; no returned mini-batch marks a step past an example's stored data
\* as valid.
C10_InvalidLengthRaises ==
    pc = "returned" =>
        /\ \A i \in KeptSet : Declared(i) <= Stored(i)
        /\ \A j \in DOMAIN batches : \A b \in Rows(batches[j]) :
            \A t \in DOMAIN batches[j].mask.data[b] :
                batches[j].mask.data[b][t] = 1 => t < Stored(batches[j].source_indices[b])

====
